---- MODULE Spec2Model ----
(***************************************************************************)
(* Model of src/rtapi/rtapi_ring.c: the ring registry (ring_array), its    *)
(* two mutexes, the process-local ring_addr_array and the four operations  *)
(* _rtapi_ring_new, _rtapi_ring_attach, _rtapi_ring_refcount and           *)
(* _rtapi_ring_detach, stepped statement by statement so that concurrent   *)
(* callers interleave as the code lets them.                               *)
(***************************************************************************)
EXTENDS Integers, FiniteSets, Sequences, TLC

\* ------------------------------------------------------------- bounds
\* number of ring_array slots (RTAPI_MAX_RINGS, scaled down)
RTAPI_MAX_RINGS == 2
\* module ids run 0..MaxModuleId; each module is one caller
MaxModuleId == 2
\* under Spec modules 0..MaxConcurrentId call concurrently
MaxConcurrentId == 1
\* calls each concurrent caller makes under Spec
MaxCalls == 2
\* calls made in all under SpecSeq
MaxSeqCalls == 5

\* ------------------------------------------------------------- constants
RING_MAGIC == 1
RTAPI_RING_SHM_KEY == 10
ENOMEM == 12
EINVAL == 22
NULL == 0

ModuleIds == 0 .. MaxModuleId
Slots == 0 .. (RTAPI_MAX_RINGS - 1)
\* handles a caller may pass: the valid range and one value either side
HandleArgs == -1 .. RTAPI_MAX_RINGS
\* segment handles the backend hands out; a pointer to a mapped segment is
\* modelled by the handle of the segment it maps, NULL by 0
SegIds == 1 .. RTAPI_MAX_RINGS
PtrValues == {NULL} \cup SegIds
\* a pointer that is not NULL and is the mapping of no segment
WILD == RTAPI_MAX_RINGS + 1
\* an automatic variable that was never assigned
UNINIT == -1
\* what a read of a never assigned pointer can yield: NULL, the mapping of a
\* segment, or some other address
IndeterminatePtrs == PtrValues \cup {WILD}

\* build configurations under which the file compiles:
\*   KBUILD     BUILD_SYS_KBUILD, RTAPI (kernel modules)
\*   USER_RTAPI BUILD_SYS_USER_DSO, RTAPI (ULAPI undefined)
\*   USER_ULAPI BUILD_SYS_USER_DSO, ULAPI
Builds == {"KBUILD", "USER_RTAPI", "USER_ULAPI"}

VARIABLES
    build,            \* the build configuration (fixed)
    ring_array,       \* slot -> ring_data
    ring_addr_array,  \* slot -> locally mapped pointer (USER_DSO builds)
    ring_mutex,       \* rtapi_data->ring_mutex, bit 0
    mutex,            \* rtapi_data->mutex, bit 0
    segs,             \* backend: segment handle -> key, 0 when not allocated
    pc,               \* caller -> position in its operation
    frame,            \* caller -> arguments and automatic variables
    pre,              \* ring_array as it was when the last sequential call began
    calls             \* caller -> number of calls it has made

vars == <<build, ring_array, ring_addr_array, ring_mutex, mutex, segs, pc, frame, pre, calls>>

\* ------------------------------------------------------------- data
ring_data_zero ==
    [magic |-> 0, key |-> 0, owner |-> 0, shmem_id |-> 0, count |-> 0, bitmap |-> {}]

NoFrame ==
    [op |-> "none", handle |-> 0, i |-> 0, count |-> 0, rhptr |-> UNINIT,
     rb |-> UNINIT, retval |-> 0]

NewFrame(o, h) == [NoFrame EXCEPT !.op = o, !.handle = h]

\* bit operations on ring_data.bitmap (a set of bit numbers)
set_bit(nr, bitmap) == bitmap \cup {nr}
clear_bit(nr, bitmap) == bitmap \ {nr}
test_bit(nr, bitmap) == nr \in bitmap

\* ------------------------------------------------------------- backend
\* the segment with a given key, 0 if none (keys name segments uniquely)
SegOfKey(key) ==
    IF \E s \in SegIds : segs[s] = key
    THEN CHOOSE s \in SegIds : segs[s] = key
    ELSE 0

\* shmget(key, 1, 0): does a segment with this key exist
shmget_exists(key) == SegOfKey(key) # 0

\* _rtapi_shmem_new(key, module_id, size): the handles a successful call may
\* return. An existing segment with the key is mapped; otherwise a new
\* one is allocated when size is not 0.
shmem_new_ids(key, size) ==
    IF SegOfKey(key) # 0 THEN {SegOfKey(key)}
    ELSE IF size = 0 THEN {}
    ELSE {s \in SegIds : segs[s] = 0 /\ \A t \in SegIds : segs[t] = 0 => s <= t}

\* _rtapi_shmem_getptr(shmem_id, &ptr) can succeed only on a live segment
shmem_getptr_ok(id) == id \in SegIds /\ segs[id] # 0

\* _rtapi_shmem_delete(shmem_id, module_id) can succeed only on a live segment
shmem_delete_ok(id) == id \in SegIds /\ segs[id] # 0

\* ------------------------------------------------------------- helpers
InFlight == {p \in ModuleIds : pc[p] # "idle"}

Goto(p, l) == pc' = [pc EXCEPT ![p] = l]

\* return v: the value is fixed, then the cleanup handler runs
Return(p, v, cleanup) ==
    /\ frame' = [frame EXCEPT ![p].retval = v]
    /\ Goto(p, cleanup)

\* rtapi_mutex_get: spin until bit 0 could be set
\* rtapi_mutex_give: clear bit 0, whoever set it

\* ------------------------------------------------------------- Init
Init ==
    /\ build \in Builds
    /\ ring_array = [s \in Slots |-> ring_data_zero]
    /\ ring_addr_array = [s \in Slots |-> NULL]
    /\ ring_mutex = 0
    /\ mutex = 0
    /\ segs = [s \in SegIds |-> 0]
    /\ pc = [p \in ModuleIds |-> "idle"]
    /\ frame = [p \in ModuleIds |-> NoFrame]
    /\ pre = [s \in Slots |-> ring_data_zero]
    /\ calls = [p \in ModuleIds |-> 0]

\* ------------------------------------------------------------- calls
\* module p enters one of the four operations with some handle argument
Invoke(p) ==
    /\ pc[p] = "idle"
    /\ \/ /\ frame' = [frame EXCEPT ![p] = NewFrame("new", 0)]
          /\ Goto(p, "new_lock")
       \/ \E h \in HandleArgs :
             /\ frame' = [frame EXCEPT ![p] = NewFrame("attach", h)]
             /\ Goto(p, "att_lock")
       \/ \E h \in HandleArgs :
             /\ frame' = [frame EXCEPT ![p] = NewFrame("refcount", h)]
             /\ Goto(p, "ref_lock")
       \/ \E h \in HandleArgs :
             /\ frame' = [frame EXCEPT ![p] = NewFrame("detach", h)]
             /\ Goto(p, "det_check")

\* a call made while other operations may be in flight
Call(p) ==
    /\ calls[p] < MaxCalls
    /\ Invoke(p)
    /\ calls' = [calls EXCEPT ![p] = @ + 1]
    /\ UNCHANGED <<build, ring_array, ring_addr_array, ring_mutex, mutex, segs, pre>>

\* the number of calls made so far by the modules of S
RECURSIVE CallsOf(_)
CallsOf(S) ==
    IF S = {} THEN 0
    ELSE LET m == CHOOSE x \in S : TRUE IN calls[m] + CallsOf(S \ {m})

\* a call made with no other operation in flight; the table is recorded
CallSeq(p) ==
    /\ InFlight = {}
    /\ CallsOf(ModuleIds) < MaxSeqCalls
    /\ Invoke(p)
    /\ calls' = [calls EXCEPT ![p] = @ + 1]
    /\ pre' = ring_array
    /\ UNCHANGED <<build, ring_array, ring_addr_array, ring_mutex, mutex, segs>>

\* the caller has its result; the frame and the recorded table are dropped
Done(p) ==
    /\ pc[p] = "done"
    /\ Goto(p, "idle")
    /\ frame' = [frame EXCEPT ![p] = NoFrame]
    /\ pre' = [s \in Slots |-> ring_data_zero]
    /\ UNCHANGED <<build, ring_array, ring_addr_array, ring_mutex, mutex, segs, calls>>

\* mutant: the cleanup handler does not give ring_mutex
ring_autorelease_mutex_keeps(p) ==
    /\ pc[p] = "ring_release"
    /\ Goto(p, "done")
    /\ UNCHANGED <<build, ring_array, ring_addr_array, ring_mutex, mutex, segs, frame, pre, calls>>

\* ------------------------------------------------------------- ring_autorelease_mutex
\* lines 35-49: the cleanup handler of new, attach and detach gives
\* ring_mutex whether or not the exiting scope holds it
ring_autorelease_mutex(p) ==
    /\ pc[p] = "ring_release"
    /\ ring_mutex' = 0
    /\ Goto(p, "done")
    /\ UNCHANGED <<build, ring_array, ring_addr_array, mutex, segs, frame, pre, calls>>

\* ------------------------------------------------------------- _rtapi_ring_new
\* mutant: the comparison of line 62 inverted
slot_free_inverted(rd) == rd.magic = RING_MAGIC

\* line 62: a slot is free when its magic is not RING_MAGIC
slot_free(rd) == rd.magic # RING_MAGIC

\* line 58
ring_new_lock(p) ==
    /\ pc[p] = "new_lock"
    /\ ring_mutex = 0
    /\ ring_mutex' = 1
    /\ Goto(p, "new_scan")
    /\ UNCHANGED <<build, ring_array, ring_addr_array, mutex, segs, frame, pre, calls>>

\* lines 61-69: one iteration of the scan for a free slot, and the exit test
ring_new_scan(p) ==
    /\ pc[p] = "new_scan"
    /\ LET i == frame[p].i IN
         IF i < RTAPI_MAX_RINGS /\ ~slot_free(ring_array[i])
         THEN /\ frame' = [frame EXCEPT ![p].i = i + 1]
              /\ UNCHANGED pc
         ELSE IF i = RTAPI_MAX_RINGS
         THEN Return(p, -ENOMEM, "ring_release")
         ELSE /\ Goto(p, "new_init")
              /\ UNCHANGED frame
    /\ UNCHANGED <<build, ring_array, ring_addr_array, ring_mutex, mutex, segs, pre, calls>>

\* mutant: the slot is marked committed before the fallible steps
ring_new_init_commits(p) ==
    /\ pc[p] = "new_init"
    /\ LET i == frame[p].i IN
         ring_array' = [ring_array EXCEPT ![i].key = RTAPI_RING_SHM_KEY + i,
                                          ![i].owner = p,
                                          ![i].magic = RING_MAGIC]
    /\ Goto(p, "new_shmem")
    /\ UNCHANGED <<build, ring_addr_array, ring_mutex, mutex, segs, frame, pre, calls>>

\* mutant: the creator's bit is set before the fallible steps
ring_new_init_registers(p) ==
    /\ pc[p] = "new_init"
    /\ LET i == frame[p].i IN
         ring_array' = [ring_array EXCEPT ![i].key = RTAPI_RING_SHM_KEY + i,
                                          ![i].owner = p,
                                          ![i].bitmap = set_bit(p, @)]
    /\ Goto(p, "new_shmem")
    /\ UNCHANGED <<build, ring_addr_array, ring_mutex, mutex, segs, frame, pre, calls>>

\* mutant: the key is the base key for every slot
ring_new_init_samekey(p) ==
    /\ pc[p] = "new_init"
    /\ LET i == frame[p].i IN
         ring_array' = [ring_array EXCEPT ![i].key = RTAPI_RING_SHM_KEY,
                                          ![i].owner = p]
    /\ Goto(p, "new_shmem")
    /\ UNCHANGED <<build, ring_addr_array, ring_mutex, mutex, segs, frame, pre, calls>>

\* lines 71-77: the slot's key and owner are written
ring_new_init(p) ==
    /\ pc[p] = "new_init"
    /\ LET i == frame[p].i IN
         ring_array' = [ring_array EXCEPT ![i].key = RTAPI_RING_SHM_KEY + i,
                                          ![i].owner = p]
    /\ Goto(p, "new_shmem")
    /\ UNCHANGED <<build, ring_addr_array, ring_mutex, mutex, segs, frame, pre, calls>>

\* lines 80-86: the segment is allocated; its handle, or the error, is stored
ring_new_shmem(p) ==
    /\ pc[p] = "new_shmem"
    /\ LET i == frame[p].i
           key == ring_array[i].key IN
         \/ /\ ring_array' = [ring_array EXCEPT ![i].shmem_id = -ENOMEM]
            /\ Return(p, -ENOMEM, "ring_release")
            /\ UNCHANGED segs
         \/ \E id \in shmem_new_ids(key, 1) :
               /\ segs' = [segs EXCEPT ![id] = key]
               /\ ring_array' = [ring_array EXCEPT ![i].shmem_id = id]
               /\ Goto(p, "new_getptr")
               /\ UNCHANGED frame
    /\ UNCHANGED <<build, ring_addr_array, ring_mutex, mutex, pre, calls>>

\* lines 89-97: the segment is mapped; ULAPI records the local mapping
ring_new_getptr(p) ==
    /\ pc[p] = "new_getptr"
    /\ LET i == frame[p].i
           id == ring_array[i].shmem_id IN
         \/ /\ Return(p, -ENOMEM, "ring_release")
            /\ UNCHANGED ring_addr_array
         \/ /\ shmem_getptr_ok(id)
            /\ frame' = [frame EXCEPT ![p].rhptr = id]
            /\ ring_addr_array' = IF build = "USER_ULAPI"
                                  THEN [ring_addr_array EXCEPT ![i] = id]
                                  ELSE ring_addr_array
            /\ Goto(p, "new_setbit")
    /\ UNCHANGED <<build, ring_array, ring_mutex, mutex, segs, pre, calls>>

\* lines 99-106: the header is initialised and the creator's bit is set
ring_new_setbit(p) ==
    /\ pc[p] = "new_setbit"
    /\ LET i == frame[p].i IN
         ring_array' = [ring_array EXCEPT ![i].bitmap = set_bit(p, @)]
    /\ Goto(p, "new_commit")
    /\ UNCHANGED <<build, ring_addr_array, ring_mutex, mutex, segs, frame, pre, calls>>

\* lines 109-111: the slot is committed and its index returned
ring_new_commit(p) ==
    /\ pc[p] = "new_commit"
    /\ LET i == frame[p].i IN
         /\ ring_array' = [ring_array EXCEPT ![i].magic = RING_MAGIC]
         /\ Return(p, i, "ring_release")
    /\ UNCHANGED <<build, ring_addr_array, ring_mutex, mutex, segs, pre, calls>>

ring_new(p) ==
    \/ ring_new_lock(p)
    \/ ring_new_scan(p)
    \/ ring_new_init(p)
    \/ ring_new_shmem(p)
    \/ ring_new_getptr(p)
    \/ ring_new_setbit(p)
    \/ ring_new_commit(p)

\* ------------------------------------------------------------- _rtapi_ring_attach
\* lines 121, 204, 221: the handle range test
handle_ok(handle) == handle >= 0 /\ handle < RTAPI_MAX_RINGS

\* line 120
ring_attach_lock(p) ==
    /\ pc[p] = "att_lock"
    /\ ring_mutex = 0
    /\ ring_mutex' = 1
    /\ Goto(p, "att_check")
    /\ UNCHANGED <<build, ring_array, ring_addr_array, mutex, segs, frame, pre, calls>>

\* lines 121-162: range test, magic test and the branch each build takes
ring_attach_check(p) ==
    /\ pc[p] = "att_check"
    /\ LET handle == frame[p].handle IN
         IF ~handle_ok(handle)
         THEN Return(p, -EINVAL, "ring_release")
         ELSE IF ring_array[handle].magic = RING_MAGIC
         THEN IF build = "KBUILD"
              THEN Goto(p, "att_getptr") /\ UNCHANGED frame
              ELSE \* lines 138-144: in-process attach, already mapped
                   IF ring_addr_array[handle] = NULL
                   THEN /\ frame' = [frame EXCEPT ![p].rhptr = NULL,
                                                  ![p].retval = -ENOMEM]
                        /\ Goto(p, "ring_release")
                   ELSE /\ frame' = [frame EXCEPT ![p].rhptr = ring_addr_array[handle]]
                        /\ Goto(p, "att_record")
         ELSE IF build = "KBUILD"
              THEN Return(p, -ENOMEM, "ring_release")
              ELSE \* lines 155-162: does the segment exist
                   IF ~shmget_exists(RTAPI_RING_SHM_KEY + handle)
                   THEN Return(p, -EINVAL, "ring_release")
                   ELSE Goto(p, "att_x_new") /\ UNCHANGED frame
    /\ UNCHANGED <<build, ring_array, ring_addr_array, ring_mutex, mutex, segs, pre, calls>>

\* lines 130-135 (KBUILD): the committed ring's segment is mapped
ring_attach_getptr(p) ==
    /\ pc[p] = "att_getptr"
    /\ LET id == ring_array[frame[p].handle].shmem_id IN
         \/ Return(p, -ENOMEM, "ring_release")
         \/ /\ shmem_getptr_ok(id)
            /\ frame' = [frame EXCEPT ![p].rhptr = id]
            /\ Goto(p, "att_record")
    /\ UNCHANGED <<build, ring_array, ring_addr_array, ring_mutex, mutex, segs, pre, calls>>

\* lines 165-172 (USER_DSO): the existing segment is attached with size 0
ring_attach_x_new(p) ==
    /\ pc[p] = "att_x_new"
    /\ LET handle == frame[p].handle
           key == RTAPI_RING_SHM_KEY + handle IN
         \/ /\ ring_array' = [ring_array EXCEPT ![handle].key = key,
                                                ![handle].shmem_id = -ENOMEM]
            /\ Return(p, -ENOMEM, "ring_release")
         \/ \E id \in shmem_new_ids(key, 0) :
               /\ ring_array' = [ring_array EXCEPT ![handle].key = key,
                                                   ![handle].shmem_id = id]
               /\ Goto(p, "att_x_getptr")
               /\ UNCHANGED frame
    /\ UNCHANGED <<build, ring_addr_array, ring_mutex, mutex, segs, pre, calls>>

\* lines 175-180 (USER_DSO): the segment is mapped into ring_addr_array;
\* rhptr is not assigned on this path
ring_attach_x_getptr(p) ==
    /\ pc[p] = "att_x_getptr"
    /\ LET handle == frame[p].handle
           id == ring_array[handle].shmem_id IN
         \/ /\ Return(p, -ENOMEM, "ring_release")
            /\ UNCHANGED ring_addr_array
         \/ /\ shmem_getptr_ok(id)
            /\ ring_addr_array' = [ring_addr_array EXCEPT ![handle] = id]
            /\ Goto(p, "att_x_commit")
            /\ UNCHANGED frame
    /\ UNCHANGED <<build, ring_array, ring_mutex, mutex, segs, pre, calls>>

\* lines 181-182: rdptr->magic = RING_MAGIC; rdptr->count++. Plain stores to
\* shared memory; the increment is a load and a store, and a build may order
\* them before the store of magic. Either the store of magic comes first
\* (this step), or the load of count does (ring_attach_x_load_first).
ring_attach_x_commit(p) ==
    /\ pc[p] = "att_x_commit"
    /\ LET handle == frame[p].handle IN
         ring_array' = [ring_array EXCEPT ![handle].magic = RING_MAGIC]
    /\ Goto(p, "att_x_load")
    /\ UNCHANGED <<build, ring_addr_array, ring_mutex, mutex, segs, frame, pre, calls>>

\* line 182, load of rdptr->count into a register (kept in frame.count)
ring_attach_x_load(p) ==
    /\ pc[p] = "att_x_load"
    /\ frame' = [frame EXCEPT ![p].count = ring_array[frame[p].handle].count]
    /\ Goto(p, "att_x_store")
    /\ UNCHANGED <<build, ring_array, ring_addr_array, ring_mutex, mutex, segs, pre, calls>>

\* line 182, store of the incremented value
ring_attach_x_store(p) ==
    /\ pc[p] = "att_x_store"
    /\ LET handle == frame[p].handle IN
         ring_array' = [ring_array EXCEPT ![handle].count = frame[p].count + 1]
    /\ Goto(p, "att_record")
    /\ UNCHANGED <<build, ring_addr_array, ring_mutex, mutex, segs, frame, pre, calls>>

\* line 182 ordered before line 181: load of rdptr->count
ring_attach_x_load_first(p) ==
    /\ pc[p] = "att_x_commit"
    /\ frame' = [frame EXCEPT ![p].count = ring_array[frame[p].handle].count]
    /\ Goto(p, "att_x_store_first")
    /\ UNCHANGED <<build, ring_array, ring_addr_array, ring_mutex, mutex, segs, pre, calls>>

\* line 182 ordered before line 181: store of the incremented value
ring_attach_x_store_first(p) ==
    /\ pc[p] = "att_x_store_first"
    /\ LET handle == frame[p].handle IN
         ring_array' = [ring_array EXCEPT ![handle].count = frame[p].count + 1]
    /\ Goto(p, "att_x_magic")
    /\ UNCHANGED <<build, ring_addr_array, ring_mutex, mutex, segs, frame, pre, calls>>

\* line 181 after line 182: store of magic
ring_attach_x_magic(p) ==
    /\ pc[p] = "att_x_magic"
    /\ LET handle == frame[p].handle IN
         ring_array' = [ring_array EXCEPT ![handle].magic = RING_MAGIC]
    /\ Goto(p, "att_record")
    /\ UNCHANGED <<build, ring_addr_array, ring_mutex, mutex, segs, frame, pre, calls>>

\* lines 187-190: the caller's bit is set and the descriptor filled in from
\* rhptr, whatever rhptr holds
ring_attach_record(p) ==
    /\ pc[p] = "att_record"
    /\ LET handle == frame[p].handle IN
         ring_array' = [ring_array EXCEPT ![handle].bitmap = set_bit(p, @)]
    /\ \E v \in (IF frame[p].rhptr = UNINIT THEN IndeterminatePtrs ELSE {frame[p].rhptr}) :
          frame' = [frame EXCEPT ![p].rb = v, ![p].retval = 0]
    /\ Goto(p, "ring_release")
    /\ UNCHANGED <<build, ring_addr_array, ring_mutex, mutex, segs, pre, calls>>

ring_attach(p) ==
    \/ ring_attach_lock(p)
    \/ ring_attach_check(p)
    \/ ring_attach_getptr(p)
    \/ ring_attach_x_new(p)
    \/ ring_attach_x_getptr(p)
    \/ ring_attach_x_commit(p)
    \/ ring_attach_x_load(p)
    \/ ring_attach_x_store(p)
    \/ ring_attach_x_load_first(p)
    \/ ring_attach_x_store_first(p)
    \/ ring_attach_x_magic(p)
    \/ ring_attach_record(p)

\* ------------------------------------------------------------- _rtapi_ring_refcount
\* lines 210-212: the bits counted are those numbered below RTAPI_MAX_RINGS
refcount_bits(bitmap) ==
    Cardinality({i \in 0 .. (RTAPI_MAX_RINGS - 1) : test_bit(i, bitmap)})

\* lines 204-213: the value _rtapi_ring_refcount(handle) returns
ring_refcount_value(handle) ==
    IF ~handle_ok(handle) THEN -EINVAL
    ELSE IF ring_array[handle].magic # RING_MAGIC THEN -EINVAL
    ELSE refcount_bits(ring_array[handle].bitmap)

\* line 203: refcount takes rtapi_data->mutex, not ring_mutex
ring_refcount_lock(p) ==
    /\ pc[p] = "ref_lock"
    /\ mutex = 0
    /\ mutex' = 1
    /\ Goto(p, "ref_body")
    /\ UNCHANGED <<build, ring_array, ring_addr_array, ring_mutex, segs, frame, pre, calls>>

\* lines 204-213
ring_refcount_body(p) ==
    /\ pc[p] = "ref_body"
    /\ frame' = [frame EXCEPT ![p].count = ring_refcount_value(frame[p].handle)]
    /\ Goto(p, "ref_release")
    /\ UNCHANGED <<build, ring_array, ring_addr_array, ring_mutex, mutex, segs, pre, calls>>

\* line 201: rtapi_autorelease_mutex gives rtapi_data->mutex; control goes
\* back to the caller, which is _rtapi_ring_detach at line 231 or the user
rtapi_autorelease_mutex(p) ==
    /\ pc[p] = "ref_release"
    /\ mutex' = 0
    /\ IF frame[p].op = "detach"
       THEN Goto(p, "det_decide") /\ UNCHANGED frame
       ELSE Return(p, frame[p].count, "done")
    /\ UNCHANGED <<build, ring_array, ring_addr_array, ring_mutex, segs, pre, calls>>

ring_refcount(p) ==
    \/ ring_refcount_lock(p)
    \/ ring_refcount_body(p)
    \/ rtapi_autorelease_mutex(p)

\* mutant: a detach on a slot that is not committed reports success
ring_detach_check_lenient(p) ==
    /\ pc[p] = "det_check"
    /\ LET handle == frame[p].handle IN
         IF ~handle_ok(handle)
         THEN Return(p, -EINVAL, "ring_release")
         ELSE IF ring_array[handle].magic # RING_MAGIC
         THEN Return(p, 0, "ring_release")
         ELSE Goto(p, "det_clear") /\ UNCHANGED frame
    /\ UNCHANGED <<build, ring_array, ring_addr_array, ring_mutex, mutex, segs, pre, calls>>

\* ------------------------------------------------------------- _rtapi_ring_detach
\* lines 221-228: range and magic tests; no mutex is taken
ring_detach_check(p) ==
    /\ pc[p] = "det_check"
    /\ LET handle == frame[p].handle IN
         IF ~handle_ok(handle)
         THEN Return(p, -EINVAL, "ring_release")
         ELSE IF ring_array[handle].magic # RING_MAGIC
         THEN Return(p, -EINVAL, "ring_release")
         ELSE Goto(p, "det_clear") /\ UNCHANGED frame
    /\ UNCHANGED <<build, ring_array, ring_addr_array, ring_mutex, mutex, segs, pre, calls>>

\* lines 230-231: the caller's bit is cleared, then refcount is called
ring_detach_clear(p) ==
    /\ pc[p] = "det_clear"
    /\ LET handle == frame[p].handle IN
         ring_array' = [ring_array EXCEPT ![handle].bitmap = clear_bit(p, @)]
    /\ Goto(p, "ref_lock")
    /\ UNCHANGED <<build, ring_addr_array, ring_mutex, mutex, segs, frame, pre, calls>>

\* mutant: the ring is retained whatever the count
detach_retains_always(count) == count >= 0

\* line 233: the ring is retained when the count is not 0
detach_retains(count) == count # 0

\* lines 233-240
ring_detach_decide(p) ==
    /\ pc[p] = "det_decide"
    /\ IF detach_retains(frame[p].count)
       THEN Return(p, 0, "ring_release")
       ELSE Goto(p, "det_delete") /\ UNCHANGED frame
    /\ UNCHANGED <<build, ring_array, ring_addr_array, ring_mutex, mutex, segs, pre, calls>>

\* mutant: a failed deletion is reported and the slot stays committed
ring_detach_delete_escalates(p) ==
    /\ pc[p] = "det_delete"
    /\ LET id == ring_array[frame[p].handle].shmem_id IN
         \/ /\ UNCHANGED segs
            /\ Return(p, -ENOMEM, "ring_release")
         \/ /\ shmem_delete_ok(id)
            /\ segs' = [segs EXCEPT ![id] = 0]
            /\ Goto(p, "det_free")
            /\ UNCHANGED frame
    /\ UNCHANGED <<build, ring_array, ring_addr_array, ring_mutex, mutex, pre, calls>>

\* lines 242-246: the segment is deleted; a failure is only logged
ring_detach_delete(p) ==
    /\ pc[p] = "det_delete"
    /\ LET id == ring_array[frame[p].handle].shmem_id IN
         \/ UNCHANGED segs
         \/ /\ shmem_delete_ok(id)
            /\ segs' = [segs EXCEPT ![id] = 0]
    /\ Goto(p, "det_free")
    /\ UNCHANGED <<build, ring_array, ring_addr_array, ring_mutex, mutex, frame, pre, calls>>

\* lines 250-251: the slot is freed
ring_detach_free(p) ==
    /\ pc[p] = "det_free"
    /\ LET handle == frame[p].handle IN
         ring_array' = [ring_array EXCEPT ![handle].magic = 0]
    /\ Return(p, 0, "ring_release")
    /\ UNCHANGED <<build, ring_addr_array, ring_mutex, mutex, segs, pre, calls>>

ring_detach(p) ==
    \/ ring_detach_check(p)
    \/ ring_detach_clear(p)
    \/ ring_detach_decide(p)
    \/ ring_detach_delete(p)
    \/ ring_detach_free(p)

\* ------------------------------------------------------------- specifications
Step(p) ==
    \/ ring_new(p)
    \/ ring_attach(p)
    \/ ring_refcount(p)
    \/ ring_detach(p)
    \/ ring_autorelease_mutex(p)
    \/ Done(p)

\* the modules 0..MaxConcurrentId run concurrently, one operation each at a time
ConcurrentIds == 0 .. MaxConcurrentId

Next == \E p \in ConcurrentIds : Call(p) \/ Step(p)

Spec == Init /\ [][Next]_vars

\* every caller's thread keeps being scheduled: a step it can take forever is
\* eventually taken (rtapi_mutex_get spins until the mutex is free)
SpecFair == Spec /\ \A p \in ConcurrentIds : WF_vars(Step(p))

\* all modules call, one operation at a time
NextSeq == \E p \in ModuleIds : CallSeq(p) \/ Step(p)

SpecSeq == Init /\ [][NextSeq]_vars

\* ------------------------------------------------------------- properties
\* no operation is in progress
Quiescent == \A p \in ModuleIds : pc[p] \in {"idle", "done"}

\* module p's operation o has returned
Returned(p, o) == pc[p] = "done" /\ frame[p].op = o

IsCommitted(rd) == rd.magic = RING_MAGIC

\* the slots committed in a table
CommittedSlots(table) == {s \in Slots : IsCommitted(table[s])}

\* the lowest free slot of a table, RTAPI_MAX_RINGS when there is none
LowestFree(table) ==
    IF CommittedSlots(table) = Slots THEN RTAPI_MAX_RINGS
    ELSE CHOOSE s \in Slots :
           /\ ~IsCommitted(table[s])
           /\ \A t \in Slots : ~IsCommitted(table[t]) => s <= t

\* the segment handle names a segment the backend holds
LiveSegment(id) == id \in SegIds /\ segs[id] # 0

\* module p is between the first ring_array read and the last ring_array
\* write of a new, attach or detach
InSection(p) ==
    \/ pc[p] \in {"new_init", "new_shmem", "new_getptr", "new_setbit", "new_commit"}
    \/ pc[p] \in {"att_getptr", "att_x_new", "att_x_getptr", "att_x_commit",
                "att_x_load", "att_x_store", "att_x_store_first", "att_x_magic",
                "att_record"}
    \/ pc[p] \in {"det_clear", "det_decide", "det_delete", "det_free"}
    \/ pc[p] \in {"ref_lock", "ref_body", "ref_release"} /\ frame[p].op = "detach"

\* C1: at no time are two callers both between the first ring_array read and
\* the last ring_array write of their operations.
C1_Serialized ==
    \A p, q \in ModuleIds : p # q => ~(InSection(p) /\ InSection(q))

\* C2: with no operation in progress, a Free slot holds no attacher bit among
\* the module ids refcount counts: an attach that returned success is not
\* lost to a concurrent detach that frees the slot.
C2_NoLostAttach ==
    Quiescent =>
      \A h \in Slots :
         ~IsCommitted(ring_array[h]) =>
            ring_array[h].bitmap \cap (0 .. (RTAPI_MAX_RINGS - 1)) = {}

\* C3: a detach that returned success freed the slot if and only if no
\* module id is left in the attacher set.
C3_DetachFreesIffEmpty ==
    \A p \in ModuleIds :
       Returned(p, "detach") /\ frame[p].retval = 0 =>
          (~IsCommitted(ring_array[frame[p].handle])
             <=> ring_array[frame[p].handle].bitmap = {})

\* C4: refcount returns the cardinality of the attacher set of a committed
\* slot, and -EINVAL for an out-of-range handle or a slot that is not
\* committed.
C4_RefcountIsCardinality ==
    \A p \in ModuleIds :
       Returned(p, "refcount") =>
          frame[p].retval =
             IF frame[p].handle \in Slots /\ IsCommitted(ring_array[frame[p].handle])
             THEN Cardinality(ring_array[frame[p].handle].bitmap)
             ELSE -EINVAL

\* C5: after a create that returned an error the slot it chose is not
\* committed and is the slot the next create will choose; when it chose none
\* the table is still full.
C5_FailedCreateLeavesSlotFree ==
    \A p \in ModuleIds :
       Returned(p, "new") /\ frame[p].retval < 0 =>
          /\ frame[p].i = LowestFree(ring_array)
          /\ frame[p].i < RTAPI_MAX_RINGS => ~IsCommitted(ring_array[frame[p].i])

\* C5 witness: a create failed after its segment had been allocated
C5_Witness ==
    \E p \in ModuleIds :
       /\ Returned(p, "new") /\ frame[p].retval < 0
       /\ frame[p].i < RTAPI_MAX_RINGS
       /\ LiveSegment(ring_array[frame[p].i].shmem_id)

\* C6 as stated: after a create that returned an error every field of every
\* slot is what it was before the call.
C6_FailedCreateTouchesNothing ==
    \A p \in ModuleIds :
       Returned(p, "new") /\ frame[p].retval < 0 => ring_array = pre

\* C6 amended: after a create that returned an error no slot's magic, bitmap
\* or count has changed and every slot but the free slot the create chose is
\* what it was before the call; only the key, owner and shmem_id of the chosen
\* free slot may differ.
C6_FailedCreateKeepsCommitted ==
    \A p \in ModuleIds :
       Returned(p, "new") /\ frame[p].retval < 0 =>
          \A s \in Slots :
             /\ ring_array[s].magic = pre[s].magic
             /\ ring_array[s].bitmap = pre[s].bitmap
             /\ ring_array[s].count = pre[s].count
             /\ (s # frame[p].i \/ IsCommitted(pre[s])) => ring_array[s] = pre[s]

\* C6 witness: a failed create has overwritten the owner of the free slot it
\* chose while another slot is committed
C6_Witness ==
    \E p \in ModuleIds :
       /\ Returned(p, "new") /\ frame[p].retval < 0
       /\ frame[p].i < RTAPI_MAX_RINGS
       /\ ring_array[frame[p].i].owner # pre[frame[p].i].owner
       /\ CommittedSlots(pre) # {}

\* C7: with no operation in progress, a slot is committed if and only if its
\* shmem_id names a live backend segment.
C7_TagIffLiveSegment ==
    Quiescent =>
      \A h \in Slots :
         IsCommitted(ring_array[h]) <=> LiveSegment(ring_array[h].shmem_id)

\* C8: a create called on a table whose committed slots are exactly 0..k-1
\* (the tables that consecutive creates reach from the empty table) chooses
\* slot k and, if it succeeds, returns k with slots 0..k committed; when all
\* RTAPI_MAX_RINGS slots are committed it returns -ENOMEM and leaves the
\* table as it was.
C8_ConsecutiveCreates ==
    \A p \in ModuleIds :
       Returned(p, "new") =>
          \A k \in 0 .. RTAPI_MAX_RINGS :
             CommittedSlots(pre) = 0 .. (k - 1) =>
                /\ frame[p].i = k
                /\ k = RTAPI_MAX_RINGS =>
                      frame[p].retval = -ENOMEM /\ ring_array = pre
                /\ (k < RTAPI_MAX_RINGS /\ frame[p].retval >= 0) =>
                      /\ frame[p].retval = k
                      /\ CommittedSlots(ring_array) = 0 .. k

\* C8 witness: a create was refused on a full table
C8_Witness ==
    \E p \in ModuleIds :
       /\ Returned(p, "new")
       /\ CommittedSlots(pre) = Slots
       /\ frame[p].retval = -ENOMEM

\* C9: a create commits, and so hands out, only a slot that is not committed
\* at that moment.
C9_CommitOnlyFreeSlot ==
    \A p \in ModuleIds :
       pc[p] = "new_commit" => ~IsCommitted(ring_array[frame[p].i])

\* C10: a successful attach to a committed ring raises the value refcount
\* returns by one when the caller was not in the attacher set, and leaves it
\* unchanged when the caller was.
C10_AttachCountsOnce ==
    \A p \in ModuleIds :
       (/\ Returned(p, "attach") /\ frame[p].retval = 0
        /\ IsCommitted(pre[frame[p].handle])) =>
          ring_refcount_value(frame[p].handle) =
             refcount_bits(pre[frame[p].handle].bitmap)
               + (IF p \in pre[frame[p].handle].bitmap THEN 0 ELSE 1)

\* C11: an attach with an out-of-range handle, a detach or a refcount with an
\* out-of-range handle or on a slot that is not committed (never created, or
\* freed by an earlier detach) returns -EINVAL and leaves every slot as it was.
C11_InvalidHandleRejected ==
    \A p \in ModuleIds :
       LET h == frame[p].handle
           bad == h \notin Slots \/ ~IsCommitted(pre[h]) IN
       /\ (Returned(p, "attach") /\ h \notin Slots) =>
             frame[p].retval = -EINVAL /\ ring_array = pre
       /\ (Returned(p, "detach") /\ bad) =>
             frame[p].retval = -EINVAL /\ ring_array = pre
       /\ (Returned(p, "refcount") /\ bad) =>
             frame[p].retval = -EINVAL /\ ring_array = pre

\* C11 witness: a detach was refused on a slot that an earlier detach freed
C11_Witness ==
    \E p \in ModuleIds :
       /\ Returned(p, "detach") /\ frame[p].handle \in Slots
       /\ ~IsCommitted(pre[frame[p].handle])
       /\ pre[frame[p].handle].key # 0
       /\ ~LiveSegment(pre[frame[p].handle].shmem_id)
       /\ pre[frame[p].handle].shmem_id \in SegIds
       /\ frame[p].retval = -EINVAL

\* C12: two slots committed at the same time hold different keys and
\* different segment handles, and an attach or detach on one handle, the
\* detach that frees it included, leaves every other slot as it was.
C12_NoCrossTalk ==
    /\ \A h1, h2 \in Slots :
          (h1 # h2 /\ IsCommitted(ring_array[h1]) /\ IsCommitted(ring_array[h2])) =>
             /\ ring_array[h1].shmem_id # ring_array[h2].shmem_id
             /\ ring_array[h1].key # ring_array[h2].key
    /\ \A p \in ModuleIds :
          ((Returned(p, "attach") \/ Returned(p, "detach")) /\ frame[p].handle \in Slots) =>
             \A s \in Slots : s # frame[p].handle => ring_array[s] = pre[s]

\* C12 witness: a detach has freed one ring while another stays committed
C12_Witness ==
    \E p \in ModuleIds :
       /\ Returned(p, "detach") /\ frame[p].retval = 0
       /\ ~IsCommitted(ring_array[frame[p].handle])
       /\ \E s \in Slots : s # frame[p].handle /\ IsCommitted(ring_array[s])

\* the kind of error a failed new or attach met, read off the path it took
ErrorKind(p) ==
    LET h == frame[p].handle IN
    IF frame[p].op = "new"
    THEN IF frame[p].i = RTAPI_MAX_RINGS THEN "RegistryExhausted" ELSE "BackendFailure"
    ELSE IF h \notin Slots THEN "InvalidHandle"
    ELSE IF IsCommitted(pre[h])
    THEN IF build # "KBUILD" /\ frame[p].rhptr = NULL
         THEN "InternalInconsistency" ELSE "BackendFailure"
    ELSE IF build = "KBUILD" \/ ~shmget_exists(RTAPI_RING_SHM_KEY + h)
         THEN "InvalidHandle" ELSE "BackendFailure"

\* C13: the value a failed new or attach returns tells the kind of error:
\* -EINVAL is returned for InvalidHandle only, and -ENOMEM, the value returned
\* for a failed backend call, is returned for no other kind.
C13_CodesDistinguishKinds ==
    \A p \in ModuleIds :
       ((Returned(p, "new") \/ Returned(p, "attach")) /\ frame[p].retval < 0) =>
          /\ frame[p].retval = -EINVAL <=> ErrorKind(p) = "InvalidHandle"
          /\ frame[p].retval = -ENOMEM <=> ErrorKind(p) = "BackendFailure"

\* C14: a detach that leaves the slot's bitmap empty returns 0 and leaves the
\* slot free, whether or not the segment could be deleted; a failed deletion
\* does not change the result.
C14_DeleteFailureIgnored ==
    \A p \in ModuleIds :
       LET h == frame[p].handle IN
       (/\ Returned(p, "detach")
        /\ h \in Slots
        /\ IsCommitted(pre[h])
        /\ ring_array[h].bitmap = {}) =>
          /\ frame[p].retval = 0
          /\ ~IsCommitted(ring_array[h])
          /\ slot_free(ring_array[h])
          /\ LowestFree(ring_array) <= h

\* a detach removed the last attacher, the segment is still there, and the
\* slot is free
C14_Witness ==
    \E p \in ModuleIds :
       LET h == frame[p].handle IN
       /\ Returned(p, "detach")
       /\ h \in Slots
       /\ IsCommitted(pre[h])
       /\ pre[h].bitmap = {p}
       /\ ring_array[h].bitmap = {}
       /\ LiveSegment(ring_array[h].shmem_id)
       /\ segs[ring_array[h].shmem_id] = ring_array[h].key
       /\ frame[p].retval = 0
       /\ ~IsCommitted(ring_array[h])

\* C15: in a user build, an attach to an in-range slot that is not committed
\* returns -EINVAL and changes nothing when no segment has the slot's key;
\* when it returns 0 the mapped pointer is in ring_addr_array[handle], the
\* slot is committed, the caller's bit is set and the descriptor is built
\* from that pointer; when it fails otherwise it returns -ENOMEM and the slot
\* is still not committed.
C15_ExternalAttach ==
    \A p \in ModuleIds :
       LET h == frame[p].handle
           key == RTAPI_RING_SHM_KEY + h IN
       (/\ Returned(p, "attach")
        /\ build # "KBUILD"
        /\ h \in Slots
        /\ ~IsCommitted(pre[h])) =>
          IF ~shmget_exists(key)
          THEN frame[p].retval = -EINVAL /\ ring_array = pre
          ELSE IF frame[p].retval = 0
          THEN /\ ring_addr_array[h] = ring_array[h].shmem_id
               /\ LiveSegment(ring_addr_array[h])
               /\ IsCommitted(ring_array[h])
               /\ test_bit(p, ring_array[h].bitmap)
               /\ frame[p].rb = ring_addr_array[h]
          ELSE /\ frame[p].retval = -ENOMEM
               /\ ~IsCommitted(ring_array[h])

\* C16: when no operation is in progress, every committed slot has at least
\* one bit set in its bitmap.
C16_CommittedHasAttacher ==
    Quiescent => \A s \in Slots : IsCommitted(ring_array[s]) => ring_array[s].bitmap # {}

\* a detach removed one of two attachers and the slot stayed committed
C16_Witness ==
    \E p \in ModuleIds :
       LET h == frame[p].handle IN
       /\ Returned(p, "detach")
       /\ h \in Slots
       /\ IsCommitted(pre[h])
       /\ p \in pre[h].bitmap
       /\ frame[p].retval = 0
       /\ IsCommitted(ring_array[h])
       /\ ring_array[h].bitmap = pre[h].bitmap \ {p}
       /\ ring_array[h].bitmap # {}

\* module q took ring_mutex (lines 58, 119) and has not yet given it
HoldsRingMutex(q) ==
    /\ frame[q].op \in {"new", "attach"}
    /\ pc[q] \notin {"idle", "done", "new_lock", "att_lock"}

\* C17: the cleanup of an operation gives ring_mutex only when the operation
\* took it: a caller about to give ring_mutex is a holder of it, and no other
\* caller holds it at that moment.
C17_ReleaseOnlyOwnLock ==
    \A p \in ModuleIds :
       pc[p] = "ring_release" =>
          /\ HoldsRingMutex(p)
          /\ \A q \in ModuleIds \ {p} : ~HoldsRingMutex(q)

\* C18: under fair scheduling every operation that was called returns, a
\* detach passes through its inner refcount, a caller waiting for a mutex
\* goes on once it is given, and when all operations have returned neither
\* ring_mutex nor rtapi_data->mutex is held.
C18_EveryCallReturns ==
    /\ \A p \in ConcurrentIds : (pc[p] # "idle") ~> (pc[p] = "done")
    /\ \A p \in ConcurrentIds :
          (pc[p] = "ref_lock" /\ frame[p].op = "detach") ~> (pc[p] = "det_decide")
    /\ [](Quiescent => (ring_mutex = 0 /\ mutex = 0))

\* a detach is inside its refcount holding rtapi_data->mutex while another
\* caller waits for that mutex
C18_Witness ==
    \E p, q \in ConcurrentIds :
       /\ p # q
       /\ frame[p].op = "detach"
       /\ pc[p] = "ref_body"
       /\ mutex = 1
       /\ pc[q] = "ref_lock"

\* C19: when a new or a user-build attach to a slot that was not committed
\* returns success, the slot it committed has the caller as owner: the module
\* id that was passed to _rtapi_shmem_new for the slot's shmem_id is the one
\* a later detach passes to _rtapi_shmem_delete.
C19_OwnerMatchesSegment ==
    \A p \in ModuleIds :
       /\ (Returned(p, "new") /\ frame[p].retval >= 0) =>
             ring_array[frame[p].retval].owner = p
       /\ (/\ Returned(p, "attach")
           /\ frame[p].retval = 0
           /\ build # "KBUILD"
           /\ ~IsCommitted(pre[frame[p].handle])) =>
             ring_array[frame[p].handle].owner = p

\* C20: in a user build, an attach to a committed slot does not fail for a
\* missing ring_addr_array entry, and when it succeeds its descriptor is built
\* from the mapping of the slot's current segment.
C20_CacheMatchesRing ==
    \A p \in ModuleIds :
       LET h == frame[p].handle IN
       (/\ Returned(p, "attach")
        /\ build # "KBUILD"
        /\ h \in Slots
        /\ IsCommitted(pre[h])) =>
          /\ frame[p].rhptr # NULL
          /\ frame[p].retval = 0
          /\ frame[p].rb = ring_array[h].shmem_id
          /\ LiveSegment(frame[p].rb)

====
